---- MODULE Spec2Model ----
(***************************************************************************)
(* Student grade management: the roster store (StudentManager), the        *)
(* backing JSON document, and the add/update, delete and refresh handlers  *)
(* of the UI (GradeApp), as a state machine.                               *)
(*                                                                         *)
(* Strings are sequences of one-character strings, so that upper(),        *)
(* strip(), int(), float() and string comparison are computed.  Numbers    *)
(* are whole marks; a Python value is a record [t, n, s] (type tag,        *)
(* numeric value, string value).                                           *)
(***************************************************************************)
EXTENDS Integers, Sequences, FiniteSets, TLC

VARIABLES students, file, op, sort_mode

vars == <<students, file, op, sort_mode>>

(***************************************************************************)
(* Bounds of the model.                                                    *)
(***************************************************************************)
\* most entries in a backing document the session starts from
MaxDocLen == 2
\* most records in a roster handed to the sorted view
MaxRoster == 2
\* records in a roster that is queried
MaxQuery == 3

(***************************************************************************)
(* Characters and strings.                                                 *)
(***************************************************************************)
LowerCase == <<"a","b","c","d","e","f","g","h","i","j","k","l","m",
               "n","o","p","q","r","s","t","u","v","w","x","y","z">>

UpperCase == <<"A","B","C","D","E","F","G","H","I","J","K","L","M",
               "N","O","P","Q","R","S","T","U","V","W","X","Y","Z">>

Digits == <<"0","1","2","3","4","5","6","7","8","9">>

\* the characters of the model in code point order
CodeOrder == <<" ", "+", "-", ".">> \o Digits \o UpperCase \o LowerCase

IndexOf(c, seq) == CHOOSE i \in 1..Len(seq) : seq[i] = c

InSeq(c, seq) == \E i \in 1..Len(seq) : seq[i] = c

Chars == {CodeOrder[i] : i \in 1..Len(CodeOrder)}

\* ord(c), up to the characters the model leaves out
OrdOf == [c \in Chars |-> IndexOf(c, CodeOrder)]

Ord(c) == OrdOf[c]

UpperOf ==
    [c \in Chars |-> IF InSeq(c, LowerCase) THEN UpperCase[IndexOf(c, LowerCase)] ELSE c]

LowerOf ==
    [c \in Chars |-> IF InSeq(c, UpperCase) THEN LowerCase[IndexOf(c, UpperCase)] ELSE c]

UpperChar(c) == UpperOf[c]

LowerChar(c) == LowerOf[c]

\* str.upper()
Upper(s) == [i \in 1..Len(s) |-> UpperChar(s[i])]

\* str.lower()
Lower(s) == [i \in 1..Len(s) |-> LowerChar(s[i])]

RECURSIVE LStrip(_)
LStrip(s) == IF s # <<>> /\ Head(s) = " " THEN LStrip(Tail(s)) ELSE s

RECURSIVE RStrip(_)
RStrip(s) ==
    IF s # <<>> /\ s[Len(s)] = " " THEN RStrip(SubSeq(s, 1, Len(s) - 1)) ELSE s

\* str.strip()
Strip(s) == RStrip(LStrip(s))

\* s < t on Python strings: lexicographic by code point
RECURSIVE StrLess(_, _)
StrLess(s, t) ==
    IF t = <<>> THEN FALSE
    ELSE IF s = <<>> THEN TRUE
    ELSE IF Head(s) # Head(t) THEN Ord(Head(s)) < Ord(Head(t))
    ELSE StrLess(Tail(s), Tail(t))

IsDigits(s) == s # <<>> /\ \A i \in 1..Len(s) : InSeq(s[i], Digits)

RECURSIVE DigitsValue(_)
DigitsValue(s) ==
    IF s = <<>> THEN 0
    ELSE 10 * DigitsValue(SubSeq(s, 1, Len(s) - 1)) + (IndexOf(s[Len(s)], Digits) - 1)

\* the text of an optionally signed decimal integer, surrounding blanks allowed
SignedDigits(s) ==
    LET t == Strip(s)
        signed == t # <<>> /\ Head(t) \in {"+", "-"}
        body == IF signed THEN Tail(t) ELSE t
    IN  IF IsDigits(body)
        THEN [ok |-> TRUE,
              n |-> IF signed /\ Head(t) = "-" THEN 0 - DigitsValue(body)
                    ELSE DigitsValue(body)]
        ELSE [ok |-> FALSE, n |-> 0]

(***************************************************************************)
(* Python values.                                                          *)
(***************************************************************************)
PyInt(n) == [t |-> "int", n |-> n, s |-> <<>>]

PyFloat(n) == [t |-> "float", n |-> n, s |-> <<>>]

\* float('nan'): a float that compares False with every number
PyNaN == [t |-> "float", n |-> 0, s |-> <<"n","a","n">>]

\* a float that is not a whole number, by the text repr() gives it, as 0.1:
\* the float nearest to the decimal number of the text
PyDecimal(s) == [t |-> "float", n |-> 0, s |-> s]

PyStr(s) == [t |-> "str", n |-> 0, s |-> s]

PyBool(b) == [t |-> "bool", n |-> IF b THEN 1 ELSE 0, s |-> <<>>]

PyNone == [t |-> "null", n |-> 0, s |-> <<>>]

PyList == [t |-> "list", n |-> 0, s |-> <<>>]

\* a field that the JSON object does not have
Absent == [t |-> "absent", n |-> 0, s |-> <<>>]

UNKNOWN == <<"U","N","K","N","O","W","N">>

\* int(r) of a string: [ok, n], ok FALSE where int() raises ValueError
ParseInt(s) == SignedDigits(s)

\* float(s) of a string: [ok, v], ok FALSE where float() raises ValueError
ParseFloat(s) ==
    LET t == Lower(Strip(s))
        d == SignedDigits(s)
    IN  IF d.ok THEN [ok |-> TRUE, v |-> PyFloat(d.n)]
        ELSE IF t \in {<<"n","a","n">>, <<"+","n","a","n">>, <<"-","n","a","n">>}
        THEN [ok |-> TRUE, v |-> PyNaN]
        ELSE [ok |-> FALSE, v |-> PyFloat(0)]

\* float(v): [ok, v], ok FALSE where float() raises
ToFloat(v) ==
    CASE v.t = "int"   -> [ok |-> TRUE, v |-> PyFloat(v.n)]
      [] v.t = "float" -> [ok |-> TRUE, v |-> v]
      [] v.t = "bool"  -> [ok |-> TRUE, v |-> PyFloat(v.n)]
      [] v.t = "str"   -> ParseFloat(v.s)
      [] OTHER         -> [ok |-> FALSE, v |-> PyFloat(0)]

RECURSIVE NatText(_)
NatText(n) == IF n < 10 THEN <<Digits[n + 1]>> ELSE NatText(n \div 10) \o <<Digits[(n % 10) + 1]>>

\* str(v)
ToStr(v) ==
    CASE v.t = "str"  -> v.s
      [] v.t = "null" -> <<"N","o","n","e">>
      [] v.t = "bool" -> IF v.n = 1 THEN <<"T","r","u","e">> ELSE <<"F","a","l","s","e">>
      [] v.t = "int"  -> IF v.n < 0 THEN <<"-">> \o NatText(0 - v.n) ELSE NatText(v.n)
      [] v.t = "float" -> IF v.s # <<>> THEN v.s
                          ELSE (IF v.n < 0 THEN <<"-">> \o NatText(0 - v.n) ELSE NatText(v.n))
                               \o <<".", "0">>
      [] OTHER        -> <<".", ".", ".">>

\* try: marks = float(x)  except Exception: marks = 0.0
FloatOrZero(v) == IF ToFloat(v).ok THEN ToFloat(v).v ELSE PyFloat(0)

(***************************************************************************)
(* Python floats to the bit: the finite binary64 numbers that are not      *)
(* negative, as [m, e], the number m * 2^e with m a sequence of            *)
(* MantissaBits bits that starts with 1, or the empty sequence for 0.0.    *)
(* Every operation rounds its exact result to the nearest such number,     *)
(* and of two nearest to the one with an even last bit.  The marks of the  *)
(* window are far from the largest and the smallest exponents.             *)
(***************************************************************************)
MantissaBits == 53

Double(m, e) == [m |-> m, e |-> e]

DZero == Double(<<>>, 0)

Zeros(k) == [i \in 1..k |-> 0]

\* bits without the zeros it starts with; bits has a 1
StripZeros(bits) ==
    SubSeq(bits, CHOOSE i \in 1..Len(bits) :
                    bits[i] = 1 /\ \A j \in 1..(i - 1) : bits[j] = 0,
           Len(bits))

\* the bits of a natural number, the highest first
RECURSIVE BitsOfNat(_)
BitsOfNat(n) == IF n = 0 THEN <<>> ELSE BitsOfNat(n \div 2) \o <<n % 2>>

\* the natural number of at most ChunkBits bits
RECURSIVE NatOfBits(_)
NatOfBits(bits) ==
    IF bits = <<>> THEN 0
    ELSE 2 * NatOfBits(SubSeq(bits, 1, Len(bits) - 1)) + bits[Len(bits)]

\* the lowest w bits of n
FixedBits(n, w) == [i \in 1..w |-> (n \div (2 ^ (w - i))) % 2]

\* the arithmetic on bit sequences goes by chunks of this many bits
ChunkBits == 20

\* a + b + c of two bit sequences of one length and a carry
RECURSIVE AddBits(_, _, _)
AddBits(a, b, c) ==
    IF a = <<>> THEN (IF c = 1 THEN <<1>> ELSE <<>>)
    ELSE LET w == IF Len(a) < ChunkBits THEN Len(a) ELSE ChunkBits
             t == NatOfBits(SubSeq(a, Len(a) - w + 1, Len(a)))
                    + NatOfBits(SubSeq(b, Len(b) - w + 1, Len(b))) + c
         IN  AddBits(SubSeq(a, 1, Len(a) - w), SubSeq(b, 1, Len(b) - w), t \div (2 ^ w))
             \o FixedBits(t % (2 ^ w), w)

\* long division of (r, bits) by n, n < 1024: the bits of the quotient,
\* then the remainder
RECURSIVE DivBits(_, _, _)
DivBits(bits, n, r) ==
    IF bits = <<>> THEN <<r>>
    ELSE LET w == IF Len(bits) < ChunkBits THEN Len(bits) ELSE ChunkBits
             t == r * (2 ^ w) + NatOfBits(SubSeq(bits, 1, w))
         IN  FixedBits(t \div n, w) \o DivBits(SubSeq(bits, w + 1, Len(bits)), n, t % n)

\* the float nearest to (b + f) * 2^e, b a sequence of bits that starts with
\* 1 and f a fraction, 0 <= f < 1, that is not 0 iff sticky
RoundNormal(b, sticky, e) ==
    IF Len(b) <= MantissaBits
    THEN Double(b \o Zeros(MantissaBits - Len(b)), e - (MantissaBits - Len(b)))
    ELSE LET keep == SubSeq(b, 1, MantissaBits)
             half == b[MantissaBits + 1] = 1
             more == sticky \/ \E i \in (MantissaBits + 2)..Len(b) : b[i] = 1
             up   == half /\ (more \/ keep[MantissaBits] = 1)
             shift == Len(b) - MantissaBits
         IN  IF ~up THEN Double(keep, e + shift)
             ELSE IF \A i \in 1..MantissaBits : keep[i] = 1
             THEN Double(<<1>> \o Zeros(MantissaBits - 1), e + shift + 1)
             ELSE Double(AddBits(keep, Zeros(MantissaBits), 1), e + shift)

\* the float nearest to (bits + f) * 2^e; a fraction is only given with
\* more than MantissaBits + 1 significant bits
RoundBits(bits, sticky, e) ==
    IF \A i \in 1..Len(bits) : bits[i] = 0 THEN DZero
    ELSE CHOOSE r \in {RoundNormal(b, sticky, e) : b \in {StripZeros(bits)}} : TRUE

\* float(n) of a natural number
DFromNat(n) == RoundBits(BitsOfNat(n), FALSE, 0)

\* bits * 2^e / n, rounded once
DivRound(bits, e, n) ==
    LET k == MantissaBits + Len(BitsOfNat(n)) + 3
    IN  CHOOSE r \in {RoundBits(SubSeq(qr, 1, Len(qr) - 1), qr[Len(qr)] # 0, e - k) :
                        qr \in {DivBits(bits \o Zeros(k), n, 0)}} : TRUE

\* x / n, n a positive int
DDivNat(x, n) == DivRound(x.m, x.e, n)

\* x + y
DAdd(x, y) ==
    IF x.m = <<>> THEN y
    ELSE IF y.m = <<>> THEN x
    ELSE LET e  == IF x.e < y.e THEN x.e ELSE y.e
             a  == x.m \o Zeros(x.e - e)
             b  == y.m \o Zeros(y.e - e)
             n  == IF Len(a) > Len(b) THEN Len(a) ELSE Len(b)
         IN  CHOOSE r \in {RoundBits(sum, FALSE, e) :
                    sum \in {AddBits(Zeros(n - Len(a)) \o a, Zeros(n - Len(b)) \o b, 0)}} :
                TRUE

\* x < y
DLess(x, y) ==
    IF y.m = <<>> THEN FALSE
    ELSE IF x.m = <<>> THEN TRUE
    ELSE IF x.e # y.e THEN x.e < y.e
    ELSE \E i \in 1..MantissaBits :
            /\ x.m[i] < y.m[i]
            /\ \A j \in 1..(i - 1) : x.m[j] = y.m[j]

\* the text of a number with a decimal point as [p, q], the number p / q
RECURSIVE PowerOfTen(_)
PowerOfTen(k) == IF k = 0 THEN 1 ELSE 10 * PowerOfTen(k - 1)

DecimalRatio(s) ==
    LET dot == CHOOSE i \in 1..Len(s) : s[i] = "."
    IN  [p |-> DigitsValue(SubSeq(s, 1, dot - 1) \o SubSeq(s, dot + 1, Len(s))),
         q |-> PowerOfTen(Len(s) - dot)]

\* float(s) of the text of a number with a decimal point
DFromDecimal(s) == DivRound(BitsOfNat(DecimalRatio(s).p), 0, DecimalRatio(s).q)

\* a float of the roster, to the bit
ToDouble(v) == IF v.s = <<>> THEN DFromNat(v.n) ELSE DFromDecimal(v.s)

\* m >= k for a float m and a whole number k: rounding a decimal text to the
\* nearest float does not carry it across a whole number
AtLeast(m, k) ==
    IF m.s = <<>> THEN m.n >= k
    ELSE m # PyNaN /\ DecimalRatio(m.s).p >= k * DecimalRatio(m.s).q

\* m > k, likewise
MoreThan(m, k) ==
    IF m.s = <<>> THEN m.n > k
    ELSE m # PyNaN /\ DecimalRatio(m.s).p > k * DecimalRatio(m.s).q

(***************************************************************************)
(* The roster: the dict self.students, in insertion order.                 *)
(***************************************************************************)
Record(roll, name, marks) == [roll |-> roll, name |-> name, marks |-> marks]

Keys(d) == {d[i].roll : i \in 1..Len(d)}

HasKey(d, k) == \E i \in 1..Len(d) : d[i].roll = k

PosOf(d, k) == CHOOSE i \in 1..Len(d) : d[i].roll = k

\* d[k] = {name, marks}: a present key keeps its place, a new key goes last
DictSet(d, k, name, marks) ==
    IF HasKey(d, k)
    THEN [d EXCEPT ![PosOf(d, k)] = Record(k, name, marks)]
    ELSE Append(d, Record(k, name, marks))

\* del d[k]
DictDel(d, k) ==
    LET p == PosOf(d, k)
    IN  [i \in 1..(Len(d) - 1) |-> IF i < p THEN d[i] ELSE d[i + 1]]

(***************************************************************************)
(* The backing document.                                                   *)
(***************************************************************************)
\* one "key": value pair of the document's root object
ObjEntry(key, name, marks, extra) ==
    [key |-> key, obj |-> TRUE, name |-> name, marks |-> marks, extra |-> extra]

BareEntry(key, value) ==
    [key |-> key, obj |-> FALSE, name |-> Absent, marks |-> value, extra |-> FALSE]

NoFile == [kind |-> "absent", root |-> "none", entries |-> <<>>]

\* a file json.load cannot parse (also: one truncated by a failed write)
CorruptFile == [kind |-> "corrupt", root |-> "none", entries |-> <<>>]

\* a file holding valid JSON whose root is not an object
RootFile(root) == [kind |-> "json", root |-> root, entries |-> <<>>]

MapFile(entries) == [kind |-> "json", root |-> "map", entries |-> entries]

\* a dump that writes the marks of each record and leaves its name out
Serialize_DropsNames(d) ==
    [kind |-> "json", root |-> "map",
     entries |-> [i \in 1..Len(d) |->
                     ObjEntry(d[i].roll, Absent, d[i].marks, FALSE)]]

\* json.dump(self.students, f, indent=2, ensure_ascii=False)
Serialize(d) ==
    MapFile([i \in 1..Len(d) |->
                ObjEntry(d[i].roll, PyStr(d[i].name), d[i].marks, FALSE)])

\* how a write to the document can end
WriteOutcomes == {"ok", "denied", "truncated"}

\* with open(path, 'w') as f: json.dump(...): the file after the attempt
Written(d, old, outcome) ==
    CASE outcome = "ok"        -> Serialize(d)
      [] outcome = "denied"    -> old
      [] outcome = "truncated" -> CorruptFile

(***************************************************************************)
(* StudentManager.                                                         *)
(***************************************************************************)
\* the record load() builds from one entry of the document
RepairedName(e) ==
    IF e.obj
    THEN Upper(ToStr(IF e.name = Absent THEN PyStr(UNKNOWN) ELSE e.name))
    ELSE UNKNOWN

\* marks repaired and then clamped into [0, 100]
RepairedMarks_Clamped(e) ==
    LET m == FloatOrZero(IF e.obj /\ e.marks = Absent THEN PyInt(0) ELSE e.marks)
    IN  IF m.n > 100 THEN PyFloat(100) ELSE IF m.n < 0 THEN PyFloat(0) ELSE m

RepairedMarks(e) ==
    IF e.obj
    THEN FloatOrZero(IF e.marks = Absent THEN PyInt(0) ELSE e.marks)
    ELSE FloatOrZero(e.marks)

\* fixed = {}; for roll, value in raw.items(): fixed[str(roll).upper()] = {...}
RECURSIVE Normalize(_)
Normalize(entries) ==
    IF entries = <<>> THEN <<>>
    ELSE LET n == Len(entries)
             e == entries[n]
         IN  DictSet(Normalize(SubSeq(entries, 1, n - 1)),
                     Upper(e.key), RepairedName(e), RepairedMarks(e))

\* what one call of a method leaves behind
Result(d, f, raised, parsed, writes) ==
    [students |-> d, file |-> f, raised |-> raised, parsed |-> parsed, writes |-> writes]

\* load() that writes back the document as it read it, not the repaired roster
LoadOf_DumpsRaw(d, f, w) ==
    IF f.kind # "json" THEN Result(<<>>, f, FALSE, FALSE, <<>>)
    ELSE IF f.root # "map" THEN Result(d, f, TRUE, FALSE, <<>>)
    ELSE Result(Normalize(f.entries), IF w = "truncated" THEN CorruptFile ELSE f,
                FALSE, TRUE, <<w>>)

\* load(): d the roster before, f the file, w how the write-back ends
LoadOf(d, f, w) ==
    IF f.kind # "json" THEN Result(<<>>, f, FALSE, FALSE, <<>>)
    ELSE IF f.root # "map" THEN Result(d, f, TRUE, FALSE, <<>>)
    ELSE LET fixed == Normalize(f.entries)
         IN  Result(fixed, Written(fixed, f, w), FALSE, TRUE, <<w>>)

\* save()
SaveOf(d, f, w) == Result(d, Written(d, f, w), FALSE, FALSE, <<w>>)

\* add_update() that saves before it stores the record
AddUpdateOf_SavesFirst(d, f, roll, name, marks, w) ==
    IF ~ToFloat(marks).ok THEN Result(d, f, TRUE, FALSE, <<>>)
    ELSE Result(DictSet(d, Upper(ToStr(roll)), Upper(ToStr(name)), ToFloat(marks).v),
                Written(d, f, w), FALSE, FALSE, <<w>>)

\* add_update() that stores the roll as it was given
AddUpdateOf_RollAsGiven(d, f, roll, name, marks, w) ==
    IF ~ToFloat(marks).ok THEN Result(d, f, TRUE, FALSE, <<>>)
    ELSE Result(DictSet(d, ToStr(roll), Upper(ToStr(name)), ToFloat(marks).v),
                Written(DictSet(d, ToStr(roll), Upper(ToStr(name)), ToFloat(marks).v), f, w),
                FALSE, FALSE, <<w>>)

\* add_update(roll, name, marks)
AddUpdateOf(d, f, roll, name, marks, w) ==
    IF ~ToFloat(marks).ok THEN Result(d, f, TRUE, FALSE, <<>>)
    ELSE SaveOf(DictSet(d, Upper(ToStr(roll)), Upper(ToStr(name)), ToFloat(marks).v), f, w)

\* delete() that saves whether or not the key was there
DeleteOf_AlwaysSaves(d, f, roll, w) ==
    IF HasKey(d, Upper(ToStr(roll)))
    THEN Result(DictDel(d, Upper(ToStr(roll))),
                Written(DictDel(d, Upper(ToStr(roll))), f, w), FALSE, FALSE, <<w>>)
    ELSE Result(d, Written(d, f, w), FALSE, FALSE, <<w>>)

\* delete(roll)
DeleteOf(d, f, roll, w) ==
    LET k == Upper(ToStr(roll))
    IN  IF HasKey(d, k) THEN SaveOf(DictDel(d, k), f, w)
        ELSE Result(d, f, FALSE, FALSE, <<>>)

Modes == {"Roll", "Name", "Marks"}

\* roll_key(item): int(r), or r itself when int() raises
RollKey(rec) ==
    IF ParseInt(rec.roll).ok THEN PyInt(ParseInt(rec.roll).n) ELSE PyStr(rec.roll)

\* a < b on two roll keys of one type
RollKeyLess(a, b) ==
    LET ka == RollKey(a)
        kb == RollKey(b)
    IN  IF ka.t = "int" THEN ka.n < kb.n ELSE StrLess(ka.s, kb.s)

\* int < str raises TypeError: any sort of two or more keys of both types does
MixedKeys(d) == \E i, j \in 1..Len(d) : RollKey(d[i]).t # RollKey(d[j]).t

NameLess(a, b) == StrLess(Lower(a.name), Lower(b.name))

\* reverse=True: the larger marks first, equal marks in their first order
MarksMore(a, b) == a.marks.n > b.marks.n

\* key(a) < key(b) under the key of the mode (for Marks: reversed)
KeyLess(a, b, mode) ==
    CASE mode = "Name"  -> NameLess(a, b)
      [] mode = "Marks" -> MarksMore(a, b)
      [] OTHER          -> RollKeyLess(a, b)

\* sorted(items, key=...): the stable sort, by the place each item takes
SortBy(seq, mode) ==
    LET n == Len(seq)
        place(i) == 1 + Cardinality({j \in 1..n :
                        \/ KeyLess(seq[j], seq[i], mode)
                        \/ (~KeyLess(seq[i], seq[j], mode) /\ j < i)})
    IN  [p \in 1..n |-> seq[CHOOSE i \in 1..n : place(i) = p]]

\* sorted(mode): [raised, view]
SortedOf(d, mode) ==
    IF mode \notin {"Name", "Marks"} /\ MixedKeys(d)
    THEN [raised |-> TRUE, view |-> <<>>]
    ELSE [raised |-> FALSE, view |-> SortBy(d, mode)]

Grades == {"S", "A", "B", "C", "D", "E", "N"}

\* the bands with their lower bounds left out
CalculateGrade_Exclusive(marks) ==
    LET m == FloatOrZero(marks)
    IN  IF MoreThan(m, 90) THEN "S"
        ELSE IF MoreThan(m, 80) THEN "A"
        ELSE IF MoreThan(m, 70) THEN "B"
        ELSE IF MoreThan(m, 60) THEN "C"
        ELSE IF MoreThan(m, 50) THEN "D"
        ELSE IF MoreThan(m, 40) THEN "E"
        ELSE "N"

\* calculate_grade(marks): m = float(marks), or 0.0 where float() raises;
\* every comparison of nan is False
CalculateGrade(marks) ==
    LET m == FloatOrZero(marks)
    IN  IF AtLeast(m, 90) THEN "S"
        ELSE IF AtLeast(m, 80) THEN "A"
        ELSE IF AtLeast(m, 70) THEN "B"
        ELSE IF AtLeast(m, 60) THEN "C"
        ELSE IF AtLeast(m, 50) THEN "D"
        ELSE IF AtLeast(m, 40) THEN "E"
        ELSE "N"

\* ranked = sorted(self.students.items(), key=marks, reverse=True)
Ranked(d) == SortBy(d, "Marks")

\* the rank of a row: one more than the number of larger marks
CsvRowsOf_SharedRanks(d) ==
    LET ranked == Ranked(d)
    IN  [i \in 1..Len(ranked) |->
            [rank  |-> PyInt(1 + Cardinality({j \in 1..Len(ranked) :
                                 ranked[j].marks.n > ranked[i].marks.n})),
             roll  |-> PyStr(ranked[i].roll),
             name  |-> PyStr(ranked[i].name),
             marks |-> ranked[i].marks,
             grade |-> PyStr(<<CalculateGrade(ranked[i].marks)>>)]]

\* export_csv: the rows handed to writerow after the header,
\* [i, r, s['name'], s['marks'], calculate_grade(s['marks'])]
CsvRowsOf(d) ==
    LET ranked == Ranked(d)
    IN  [i \in 1..Len(ranked) |->
            [rank  |-> PyInt(i),
             roll  |-> PyStr(ranked[i].roll),
             name  |-> PyStr(ranked[i].name),
             marks |-> ranked[i].marks,
             grade |-> PyStr(<<CalculateGrade(ranked[i].marks)>>)]]

\* csv.writer writes each field of a row as str(field)
CsvLinesOf(rows) ==
    [i \in 1..Len(rows) |->
        [rank  |-> ToStr(rows[i].rank),
         roll  |-> ToStr(rows[i].roll),
         name  |-> ToStr(rows[i].name),
         marks |-> ToStr(rows[i].marks),
         grade |-> ToStr(rows[i].grade)]]

\* export_csv(path): [notified, lines]; open() may fail, and then the user
\* is shown the error and nothing is written
ExportCsvOf(d, w) ==
    IF w = "ok" THEN [notified |-> "", lines |-> CsvLinesOf(CsvRowsOf(d))]
    ELSE [notified |-> "Export failed", lines |-> <<>>]

\* t in s
Contains(t, s) == \E k \in 0..(Len(s) - Len(t)) : SubSeq(s, k + 1, k + Len(t)) = t

\* the query compared as it is typed
FilterSearchOf_CaseSensitive(d, text) ==
    IF text = <<>> THEN Keys(d)
    ELSE {d[i].roll : i \in {j \in 1..Len(d) :
                Contains(text, d[j].roll) \/ Contains(text, d[j].name)}}

\* filter_search(text)
FilterSearchOf(d, text) ==
    IF text = <<>> THEN Keys(d)
    ELSE LET t == Lower(text)
         IN  {d[i].roll : i \in {j \in 1..Len(d) :
                Contains(t, Lower(d[j].roll)) \/ Contains(t, Lower(d[j].name))}}

\* the first mark left out of the sum
RECURSIVE SumOf_SkipsFirst(_)
SumOf_SkipsFirst(marks) ==
    IF Len(marks) <= 1 THEN DZero
    ELSE CHOOSE r \in {DAdd(acc, marks[Len(marks)]) :
                        acc \in {SumOf_SkipsFirst(SubSeq(marks, 1, Len(marks) - 1))}} : TRUE

\* sum(marks): 0 + marks[1] + marks[2] + ..., each sum rounded
RECURSIVE SumOf(_)
SumOf(marks) ==
    IF marks = <<>> THEN DZero
    ELSE CHOOSE r \in {DAdd(acc, marks[Len(marks)]) :
                        acc \in {SumOf(SubSeq(marks, 1, Len(marks) - 1))}} : TRUE

\* max(marks) and min(marks): the first of the largest, of the smallest
MaxAt(marks) ==
    CHOOSE i \in 1..Len(marks) :
        /\ \A j \in 1..Len(marks) : ~DLess(marks[i], marks[j])
        /\ \A j \in 1..(i - 1) : DLess(marks[j], marks[i])

MinAt(marks) ==
    CHOOSE i \in 1..Len(marks) :
        /\ \A j \in 1..Len(marks) : ~DLess(marks[j], marks[i])
        /\ \A j \in 1..(i - 1) : DLess(marks[i], marks[j])

\* the dict stats() returns for a roster d that is not empty and has the
\* floats marks
StatsOn(d, marks) ==
    [total |-> Len(marks),
     max   |-> d[MaxAt(marks)].marks,
     min   |-> d[MinAt(marks)].marks,
     avg   |-> CHOOSE q \in {DDivNat(sum, Len(marks)) : sum \in {SumOf(marks)}} : TRUE]

\* stats()
StatsOf(d) ==
    IF d = <<>>
    THEN [total |-> 0, max |-> PyInt(0), min |-> PyInt(0), avg |-> PyInt(0)]
    ELSE CHOOSE r \in {StatsOn(d, marks) :
                        marks \in {[i \in 1..Len(d) |-> ToDouble(d[i].marks)]}} : TRUE

(***************************************************************************)
(* GradeApp: the handlers.                                                 *)
(***************************************************************************)
\* what load() left, with what the views that follow add to it
AfterViews(l, mode) ==
    IF l.raised THEN l ELSE [l EXCEPT !.raised = SortedOf(l.students, mode).raised]

\* refresh_all(): the reload, then the table, the statistics and the charts,
\* which read the roster in the sort mode the option menu shows
RefreshOf(d, f, w, mode) == AfterViews(LoadOf(d, f, w), mode)

\* the checks without the test of the range
Rejection_NoRange(roll, name, mark_s) ==
    IF roll = <<>> \/ name = <<>> THEN "Roll and Name are required"
    ELSE IF ~ParseFloat(mark_s).ok THEN "Enter marks between 0 and 100"
    ELSE ""

\* the check of the name left out
Rejection_NoName(roll, name, mark_s) ==
    IF roll = <<>> THEN "Roll and Name are required"
    ELSE IF ~ParseFloat(mark_s).ok THEN "Enter marks between 0 and 100"
    ELSE LET m == ParseFloat(mark_s).v
         IN  IF m.s = <<>> /\ 0 <= m.n /\ m.n <= 100 THEN ""
             ELSE "Enter marks between 0 and 100"

\* the checks of add_update() before the store is called: "" when they pass
Rejection(roll, name, mark_s) ==
    IF roll = <<>> \/ name = <<>> THEN "Roll and Name are required"
    ELSE IF ~ParseFloat(mark_s).ok THEN "Enter marks between 0 and 100"
    ELSE LET m == ParseFloat(mark_s).v
         IN  IF m.s = <<>> /\ 0 <= m.n /\ m.n <= 100 THEN ""
             ELSE "Enter marks between 0 and 100"

\* a handler that returned before it called the store
Refused(d, f, why) ==
    [students |-> d, file |-> f, raised |-> FALSE, writes |-> <<>>,
     reload |-> <<>>, notified |-> why, calls |-> <<>>]

\* a handler that called the store (a) and then refresh_all() (l)
Handled(a, l, call) ==
    [students |-> l.students, file |-> l.file, raised |-> l.raised,
     writes |-> a.writes, reload |-> l.writes, notified |-> "",
     calls |-> <<call, "load">>]

\* self.clear_fields(); self.refresh_all()
ThenRefresh(a, w, mode, call) ==
    Handled(a, RefreshOf(a.students, a.file, w, mode), call)

\* GradeApp.add_update()
UIAddUpdateOf(d, f, r, n, m, w1, w2, mode) ==
    LET roll == Upper(Strip(r))
        name == Upper(Strip(n))
        mark_s == Strip(m)
        why == Rejection(roll, name, mark_s)
    IN  IF why # "" THEN Refused(d, f, why)
        ELSE ThenRefresh(AddUpdateOf(d, f, PyStr(roll), PyStr(name),
                                     ParseFloat(mark_s).v, w1),
                         w2, mode, "add_update")

\* GradeApp.delete()
UIDeleteOf(d, f, r, w1, w2, mode) ==
    LET roll == Upper(Strip(r))
    IN  IF roll = <<>> THEN Refused(d, f, "Enter roll to delete")
        ELSE ThenRefresh(DeleteOf(d, f, PyStr(roll), w1), w2, mode, "delete")

\* generate_pdf: the rows of the table, as the strings drawn, in the order
\* drawn: str(i), str(r), str(name), str(marks), calculate_grade(marks)
PdfRowsOf(d) ==
    LET ranked == Ranked(d)
    IN  [i \in 1..Len(ranked) |->
            [rank  |-> ToStr(PyInt(i)),
             roll  |-> ToStr(PyStr(ranked[i].roll)),
             name  |-> ToStr(PyStr(ranked[i].name)),
             marks |-> ToStr(ranked[i].marks),
             grade |-> <<CalculateGrade(ranked[i].marks)>>]]

\* generate_pdf(): [notified, lines]; nothing is drawn when the user
\* chooses no path
GeneratePdfOf(d, chosen) ==
    IF chosen THEN [notified |-> "Report", lines |-> PdfRowsOf(d)]
    ELSE [notified |-> "", lines |-> <<>>]

(***************************************************************************)
(* Inputs.                                                                 *)
(***************************************************************************)
\* arguments of the store's methods
StoreRolls == {PyStr(<<"a">>), PyStr(<<"A">>), PyInt(2)}

StoreNames == {PyStr(<<"b","o","b">>), PyStr(<<"A","l">>)}

StoreMarks == {PyInt(50), PyFloat(100), PyStr(<<"x">>)}

\* texts of the entry fields of the window
UIRolls == {<<" ">>, <<" ","a">>, <<"2">>}

UINames == {<<>>, <<"A","l"," ">>}

UIMarks == {<<>>, <<"5","0">>, <<"1","0","0">>, <<"1","0","1">>,
            <<"-","1">>, <<"n","a","n">>}

\* documents a session starts from
SessionFiles ==
    {NoFile, RootFile("list"),
     MapFile(<<BareEntry(<<"a">>, PyInt(55))>>)}

\* entries of the documents load() is given
DocEntries ==
    {BareEntry(<<"1">>, PyInt(55)),
     ObjEntry(<<"2">>, PyStr(<<"b","o","b">>), PyStr(<<"x">>), FALSE),
     ObjEntry(<<"a">>, PyStr(<<"a","l">>), PyInt(150), FALSE),
     ObjEntry(<<"A">>, Absent, PyFloat(70), TRUE),
     BareEntry(<<"A">>, PyStr(<<"4","0">>)),
     ObjEntry(<<"2">>, PyNone, Absent, FALSE),
     BareEntry(<<"b">>, PyList),
     ObjEntry(<<"B">>, PyStr(<<"B","O","B">>), PyFloat(90), FALSE),
     ObjEntry(<<"1">>, PyStr(<<"A","l">>), PyBool(TRUE), FALSE),
     BareEntry(<<"2">>, PyFloat(0 - 5))}

\* a parsed JSON object has each key once
DistinctKeys(entries) ==
    \A i, j \in 1..Len(entries) : entries[i].key = entries[j].key => i = j

LoadFiles ==
    {NoFile, CorruptFile, RootFile("list"), RootFile("number"),
     RootFile("string"), RootFile("null")}
    \cup {MapFile(es) : es \in {x \in UNION {[1..k -> DocEntries] : k \in 0..MaxDocLen} :
                                   DistinctKeys(x)}}

\* records of the rosters the sorted view is given
SortRecords ==
    {Record(r, nm[1], PyFloat(nm[2])) :
        r \in {<<"2">>, <<"1","0">>, <<"A">>, <<"B">>, <<"-","1">>},
        nm \in {<<(<<"B","O","B">>), 50>>, <<(<<"A","L">>), 100>>}}

DistinctRolls(d) == \A i, j \in 1..Len(d) : d[i].roll = d[j].roll => i = j

SortRosters ==
    {x \in UNION {[1..k -> SortRecords] : k \in 0..MaxRoster} : DistinctRolls(x)}

\* records of the rosters the queries are given
QueryRecords ==
    {Record(r, nm, PyFloat(m)) :
        r \in {<<"1">>, <<"A","2">>, <<"B">>},
        nm \in {<<"A","L">>, <<"B","O","B">>},
        m \in {40, 70, 90}}

QueryRosters ==
    {x \in UNION {[1..k -> QueryRecords] : k \in 0..MaxQuery} : DistinctRolls(x)}

\* records of the rosters stats() is given: whole marks, or the mark 0.1
StatsRecords ==
    {Record(r, <<"A","L">>, m) :
        r \in {<<"1">>, <<"2">>, <<"3">>, <<"4">>},
        m \in {PyFloat(0), PyFloat(40), PyFloat(70), PyFloat(100),
               PyDecimal(<<"0",".","1">>)}}

\* sum() adds floats from the left and, from Python 3.12 on, carries the
\* rounding errors along: the two give one sum where the marks are whole and
\* where they are 0.0 and one more number, and so the rosters are of these
OneSum(d) ==
    \/ \A i \in 1..Len(d) : d[i].marks.s = <<>>
    \/ \A i \in 1..Len(d) : d[i].marks \in {PyFloat(0), PyDecimal(<<"0",".","1">>)}

StatsRosters ==
    {x \in UNION {[1..k -> StatsRecords] : k \in 0..MaxQuery} :
        DistinctRolls(x) /\ OneSum(x)}

\* texts of the search field
SearchTexts ==
    {<<>>, <<"a">>, <<"A">>, <<"b">>, <<"o","B">>, <<"2">>, <<"a","l">>,
     <<"x">>, <<" ">>}

\* what calculate_grade is given
GradeInputs ==
    {PyFloat(n) : n \in {0 - 5, 0, 39, 40, 49, 50, 59, 60, 69, 70, 79, 80, 89,
                         90, 100, 150}}
    \cup {PyDecimal(<<"8","9",".","9","9","9">>), PyDecimal(<<"3","9",".","9","9","9">>),
          PyDecimal(<<"9","0",".","5">>), PyDecimal(<<"0",".","1">>)}
    \cup {PyInt(85), PyBool(TRUE), PyStr(<<"9","5">>), PyStr(<<"x">>),
          PyStr(<<>>), PyNone, PyList, PyNaN}

(***************************************************************************)
(* The state machine.  op describes the last call: its name and arguments, *)
(* whether it raised, whether load() parsed a document, how the writes of  *)
(* the call (writes) and of the reload that follows it in a handler        *)
(* (reload) ended, what it told the user, which methods of the store it    *)
(* called, what it returned, and, for load(), the call before it (after).  *)
(***************************************************************************)
NoOp ==
    [name |-> "init", roll |-> PyNone, sname |-> PyNone, marks |-> PyNone,
     mode |-> "", raised |-> FALSE, parsed |-> FALSE, writes |-> <<>>,
     reload |-> <<>>, notified |-> "", calls |-> <<>>, view |-> <<>>,
     after |-> <<>>, result |-> <<>>, text |-> <<>>]

\* self.file_path = file_path; self.students = {}
Init == students = <<>> /\ file \in SessionFiles /\ op = NoOp /\ sort_mode = "Roll"

\* a first session: no document yet
InitFresh == students = <<>> /\ file = NoFile /\ op = NoOp /\ sort_mode = "Roll"

InitLoad == students = <<>> /\ file \in LoadFiles /\ op = NoOp /\ sort_mode = "Roll"

InitSorted == students \in SortRosters /\ file = Serialize(students)
              /\ op = [NoOp EXCEPT !.name = "ready"] /\ sort_mode = "Roll"

InitStats == students \in StatsRosters /\ file = Serialize(students)
             /\ op = [NoOp EXCEPT !.name = "ready"] /\ sort_mode = "Roll"

InitQuery == students \in QueryRosters /\ file = Serialize(students)
             /\ op = [NoOp EXCEPT !.name = "ready"] /\ sort_mode = "Roll"

\* the object exists: __init__ has run and its load() did not raise
Started == op.name # "init" /\ ~(op.name = "construct" /\ op.raised)

\* StudentManager.__init__: the first load()
Construct ==
    /\ op.name = "init"
    /\ \E w \in WriteOutcomes :
        \E r \in {LoadOf(students, file, w)} :
            /\ students' = r.students
            /\ file' = r.file
            /\ UNCHANGED sort_mode
            /\ op' = [NoOp EXCEPT !.name = "construct", !.raised = r.raised,
                                  !.parsed = r.parsed, !.writes = r.writes]

Load ==
    /\ Started
    /\ \E w \in WriteOutcomes :
        \E r \in {LoadOf(students, file, w)} :
            /\ students' = r.students
            /\ file' = r.file
            /\ UNCHANGED sort_mode
            /\ op' = [NoOp EXCEPT !.name = "load", !.raised = r.raised,
                                  !.parsed = r.parsed, !.writes = r.writes,
                                  !.after = <<op.name>> \o op.writes]

Save ==
    /\ Started
    /\ \E w \in WriteOutcomes :
        \E r \in {SaveOf(students, file, w)} :
            /\ students' = r.students
            /\ file' = r.file
            /\ UNCHANGED sort_mode
            /\ op' = [NoOp EXCEPT !.name = "save", !.writes = r.writes]

AddUpdate ==
    /\ Started
    /\ \E roll \in StoreRolls, name \in StoreNames, marks \in StoreMarks,
          w \in WriteOutcomes :
        \E r \in {AddUpdateOf(students, file, roll, name, marks, w)} :
            /\ students' = r.students
            /\ file' = r.file
            /\ UNCHANGED sort_mode
            /\ op' = [NoOp EXCEPT !.name = "add_update", !.roll = roll,
                                  !.sname = name, !.marks = marks,
                                  !.raised = r.raised, !.writes = r.writes]

Delete ==
    /\ Started
    /\ \E roll \in StoreRolls, w \in WriteOutcomes :
        \E r \in {DeleteOf(students, file, roll, w)} :
            /\ students' = r.students
            /\ file' = r.file
            /\ UNCHANGED sort_mode
            /\ op' = [NoOp EXCEPT !.name = "delete", !.roll = roll,
                                  !.raised = r.raised, !.writes = r.writes]

Sorted ==
    /\ Started
    /\ \E mode \in Modes :
        /\ op' = [NoOp EXCEPT !.name = "sorted", !.mode = mode,
                              !.raised = SortedOf(students, mode).raised,
                              !.view = SortedOf(students, mode).view]
        /\ UNCHANGED <<students, file, sort_mode>>

ExportCsv ==
    /\ Started
    /\ \E w \in {"ok", "denied"} :
        \E r \in {ExportCsvOf(students, w)} :
            /\ op' = [NoOp EXCEPT !.name = "export_csv", !.notified = r.notified,
                                  !.view = r.lines]
            /\ UNCHANGED <<students, file, sort_mode>>

GeneratePdf ==
    /\ Started
    /\ \E chosen \in BOOLEAN :
        \E r \in {GeneratePdfOf(students, chosen)} :
            /\ op' = [NoOp EXCEPT !.name = "generate_pdf", !.notified = r.notified,
                                  !.view = r.lines]
            /\ UNCHANGED <<students, file, sort_mode>>

Grade ==
    /\ Started
    /\ \E marks \in GradeInputs :
        /\ op' = [NoOp EXCEPT !.name = "calculate_grade", !.marks = marks,
                              !.result = CalculateGrade(marks)]
        /\ UNCHANGED <<students, file, sort_mode>>

FilterSearch ==
    /\ Started
    /\ \E text \in SearchTexts :
        /\ op' = [NoOp EXCEPT !.name = "filter_search", !.text = text,
                              !.result = FilterSearchOf(students, text)]
        /\ UNCHANGED <<students, file, sort_mode>>

Stats ==
    /\ Started
    /\ op' = [NoOp EXCEPT !.name = "stats", !.result = StatsOf(students)]
    /\ UNCHANGED <<students, file, sort_mode>>

UIAddUpdate ==
    /\ Started
    /\ \E r \in UIRolls, n \in UINames, m \in UIMarks :
        \E w1, w2 \in (IF Rejection(Upper(Strip(r)), Upper(Strip(n)), Strip(m)) = ""
                       THEN WriteOutcomes ELSE {"ok"}) :
        \E u \in {UIAddUpdateOf(students, file, r, n, m, w1, w2, sort_mode)} :
            /\ students' = u.students
            /\ file' = u.file
            /\ UNCHANGED sort_mode
            /\ op' = [NoOp EXCEPT !.name = "ui_add_update", !.roll = PyStr(r),
                                  !.sname = PyStr(n), !.marks = PyStr(m),
                                  !.raised = u.raised, !.writes = u.writes,
                                  !.reload = u.reload,
                                  !.notified = u.notified, !.calls = u.calls]

UIDelete ==
    /\ Started
    /\ \E r \in UIRolls, w1, w2 \in WriteOutcomes :
        \E u \in {UIDeleteOf(students, file, r, w1, w2, sort_mode)} :
            /\ students' = u.students
            /\ file' = u.file
            /\ UNCHANGED sort_mode
            /\ op' = [NoOp EXCEPT !.name = "ui_delete", !.roll = PyStr(r),
                                  !.raised = u.raised, !.writes = u.writes,
                                  !.reload = u.reload,
                                  !.notified = u.notified, !.calls = u.calls]

\* refresh_all(), as the sort menu (which sets the mode first) and the theme
\* button (which keeps it) call it
UIRefresh ==
    /\ Started
    /\ \E w \in WriteOutcomes, mode \in Modes :
        \E r \in {RefreshOf(students, file, w, mode)} :
            /\ students' = r.students
            /\ file' = r.file
            /\ sort_mode' = mode
            /\ op' = [NoOp EXCEPT !.name = "refresh_all", !.raised = r.raised,
                                  !.parsed = r.parsed, !.reload = r.writes,
                                  !.calls = <<"load">>]

\* the store, called in any order
Next ==
    \/ Construct
    \/ Load
    \/ Save
    \/ AddUpdate
    \/ Delete

Spec == Init /\ [][Next]_vars

\* a session of the application: the window's handlers
NextUI ==
    \/ Construct
    \/ UIAddUpdate
    \/ UIDelete
    \/ UIRefresh

SpecUI == Init /\ [][NextUI]_vars

\* the window's handlers, from a first session on
SpecFresh == InitFresh /\ [][NextUI]_vars

\* the store's load() and save(), on every document
NextLoad ==
    \/ Construct
    \/ Load
    \/ Save

SpecLoad == InitLoad /\ [][NextLoad]_vars

\* the sorted view, on every roster
NextSorted == Sorted

SpecSorted == InitSorted /\ [][NextSorted]_vars

\* the queries of the store and the report, on every roster
NextQuery ==
    \/ ExportCsv
    \/ GeneratePdf
    \/ Grade
    \/ FilterSearch

SpecQuery == InitQuery /\ [][NextQuery]_vars

\* stats(), on every roster
NextStats == Stats

SpecStats == InitStats /\ [][NextStats]_vars

(***************************************************************************)
(* Properties.                                                             *)
(***************************************************************************)
\* the record the roster holds under key k
Lookup(d, k) == d[PosOf(d, k)]

\* exactly one record of the roster has key k
HasOnce(d, k) == Cardinality({i \in 1..Len(d) : d[i].roll = k}) = 1

\* a Python number in [0, 100]
MarksInRange(v) == v.t \in {"int", "float"} /\ v.s = <<>> /\ 0 <= v.n /\ v.n <= 100

\* the call was a handler that passed its checks and called the store
CalledStore(o) == o.calls # <<>>

\* C1: when the write of save() fails during an upsert or a delete made from
\* the window, the roster after the handler (its refresh included) still
\* holds the upserted record, respectively no longer holds the deleted one.
C1_RosterKeepsMutation ==
    /\ (op.name = "ui_add_update" /\ CalledStore(op) /\ op.writes # <<"ok">>)
        => /\ HasOnce(students, Upper(Strip(op.roll.s)))
           /\ Lookup(students, Upper(Strip(op.roll.s))).name = Upper(Strip(op.sname.s))
           /\ Lookup(students, Upper(Strip(op.roll.s))).marks.n
                = SignedDigits(op.marks.s).n
    /\ (op.name = "ui_delete" /\ CalledStore(op) /\ op.writes \in {<<"denied">>, <<"truncated">>})
        => ~HasKey(students, Upper(Strip(op.roll.s)))

\* C2: load() never raises to its caller, whatever the document holds.
C2_LoadNeverRaises == op.name \in {"construct", "load"} => ~op.raised

\* C3: add_update(roll, name, marks) with 0 <= marks <= 100 leaves
\* upper(roll) mapped to exactly {name: upper(name), marks: marks}, in place
\* of any record that key had, and every other key with the record it had.
C3_Upsert ==
    [][(op'.name = "add_update" /\ MarksInRange(op'.marks))
        => LET k == Upper(ToStr(op'.roll))
           IN  /\ HasOnce(students', k)
               /\ Lookup(students', k).name = Upper(ToStr(op'.sname))
               /\ Lookup(students', k).marks.n = op'.marks.n
               /\ Lookup(students', k).marks.t = "float"
               /\ Keys(students') = Keys(students) \cup {k}
               /\ \A j \in Keys(students') \ {k} :
                     HasOnce(students', j) /\ Lookup(students', j) = Lookup(students, j)
               /\ ~op'.raised]_vars

\* an upsert that replaced the record of a key, beside another key's record
C3_Witness ==
    /\ op.name = "add_update"
    /\ MarksInRange(op.marks)
    /\ Len(students) = 2
    /\ students[1].roll = Upper(ToStr(op.roll))

\* the last entry of the document whose key upper-cases to k
LastEntry(es, k) ==
    es[CHOOSE i \in 1..Len(es) :
          /\ Upper(es[i].key) = k
          /\ \A j \in (i + 1)..Len(es) : Upper(es[j].key) # k]

\* the number a JSON value is coerced to, 0.0 when it has none
Coerced(v) ==
    CASE v.t \in {"int", "float"} -> PyFloat(v.n)
      [] v.t = "bool" -> PyFloat(v.n)
      [] v.t = "str" /\ SignedDigits(v.s).ok -> PyFloat(SignedDigits(v.s).n)
      [] OTHER -> PyFloat(0)

\* record r is what the claim has load() make of entry e
RepairOf(r, e) ==
    /\ r.marks = Coerced(e.marks)
    /\ (~e.obj \/ e.name = Absent) => r.name = UNKNOWN
    /\ (e.obj /\ e.name.t = "str") => r.name = Upper(e.name.s)

\* C4: for a document that parses to a mapping, load() yields one record per
\* upper-cased key; an object value gives {name: upper(its name, "UNKNOWN" if
\* absent), marks: its marks as a number, 0.0 if they have none}, a bare value
\* gives {name: "UNKNOWN", marks: the value as a number, 0.0 if it has none};
\* marks outside [0, 100] are kept, and of two keys that differ only in case
\* the later entry stays.
C4_LoadRepairs ==
    [][(op'.name \in {"construct", "load"} /\ file.kind = "json" /\ file.root = "map")
        => /\ ~op'.raised
           /\ Keys(students') = {Upper(file.entries[i].key) : i \in 1..Len(file.entries)}
           /\ \A i \in 1..Len(students') :
                 /\ HasOnce(students', students'[i].roll)
                 /\ RepairOf(students'[i], LastEntry(file.entries, students'[i].roll))]_vars

\* a load that read two keys differing only in case and kept marks above 100
\* (its write-back was denied, so the document is still the one it read)
C4_Witness ==
    /\ op.name \in {"construct", "load"}
    /\ op.parsed
    /\ op.writes = <<"denied">>
    /\ Len(file.entries) = 2
    /\ Len(students) = 1
    /\ \E i \in 1..2 : file.entries[i].marks = PyInt(150)

\* the document is the roster d, every value in the object form {name, marks}
FileHolds(f, d) ==
    /\ f.kind = "json"
    /\ f.root = "map"
    /\ Len(f.entries) = Len(d)
    /\ \A i \in 1..Len(d) :
          /\ f.entries[i].key = d[i].roll
          /\ f.entries[i].obj
          /\ ~f.entries[i].extra
          /\ f.entries[i].name = PyStr(d[i].name)
          /\ f.entries[i].marks = d[i].marks
          /\ d[i].marks.t = "float"

\* C5: after load() parsed a document and wrote it back, the document holds
\* exactly the normalized roster in the object form, and another load() of it
\* yields the same roster and writes the same document.
C5_RepairFixedPoint ==
    (op.name \in {"construct", "load"} /\ op.parsed /\ op.writes = <<"ok">>)
        => /\ FileHolds(file, students)
           /\ LoadOf(students, file, "ok").students = students
           /\ LoadOf(students, file, "ok").file = file
           /\ ~LoadOf(students, file, "ok").raised

\* a load that repaired a bare value and wrote the repaired roster back
C5_Witness ==
    /\ op.name \in {"construct", "load"}
    /\ op.parsed
    /\ op.writes = <<"ok">>
    /\ Len(students) = 2
    /\ \E i \in 1..2 : students[i].name = UNKNOWN

\* C6: the whole roster is serialized after every mutation: when the write
\* of an upsert, or of a delete of a present roll, succeeds, the document
\* holds the roster as the operation leaves it.
C6_DocumentFollowsRoster ==
    (op.name \in {"add_update", "delete"} /\ op.writes = <<"ok">>)
        => FileHolds(file, students)

\* a delete of a present roll, written, that left a record behind
C6_Witness ==
    /\ op.name = "delete"
    /\ op.writes = <<"ok">>
    /\ Len(students) = 1

\* upper-case roll keys, upper-case names, numeric marks
WellFormed(d) ==
    \A i \in 1..Len(d) :
        /\ Upper(d[i].roll) = d[i].roll
        /\ Upper(d[i].name) = d[i].name
        /\ d[i].marks.t \in {"int", "float"}
        /\ d[i].marks.s = <<>>

\* equal by roll, name and marks
SameRoster(d, e) ==
    /\ Keys(d) = Keys(e)
    /\ \A k \in Keys(d) :
          /\ HasOnce(d, k)
          /\ HasOnce(e, k)
          /\ Lookup(d, k).name = Lookup(e, k).name
          /\ Lookup(d, k).marks.n = Lookup(e, k).marks.n

\* the call ended with a successful save() of the roster
SavedOk(o) == o.name \in {"save", "add_update", "delete"} /\ o.writes = <<"ok">>

\* C7: for a roster of well-formed records, a successful save followed by
\* load on the same path yields a roster equal to the saved one by roll, name
\* and marks.
C7_SaveLoadRoundTrip ==
    [][(SavedOk(op) /\ WellFormed(students) /\ op'.name = "load")
        => (~op'.raised /\ SameRoster(students', students))]_vars

\* a load right after a successful save of a roster of two records
C7_Witness ==
    /\ op.name = "load"
    /\ op.after \in {<<"save", "ok">>, <<"add_update", "ok">>}
    /\ op.parsed
    /\ Len(students) = 2

\* C8: delete(roll) removes the record under upper(roll) and nothing else
\* when that key is present, then saves; when the key is absent the roster
\* and the document are unchanged, no save is made and nothing is raised.
C8_Delete ==
    [][op'.name = "delete"
        => LET k == Upper(ToStr(op'.roll))
           IN  /\ ~op'.raised
               /\ HasKey(students, k) =>
                     /\ Keys(students') = Keys(students) \ {k}
                     /\ Len(students') = Len(students) - 1
                     /\ \A j \in Keys(students') : Lookup(students', j) = Lookup(students, j)
                     /\ Len(op'.writes) = 1
                     /\ (op'.writes = <<"ok">> => FileHolds(file', students'))
               /\ ~HasKey(students, k) =>
                     /\ students' = students
                     /\ file' = file
                     /\ op'.writes = <<>>]_vars

\* a delete that removed one of two records and saved
C8_Witness ==
    /\ op.name = "delete"
    /\ Len(op.writes) = 1
    /\ Len(students) = 1
    /\ students[1].roll # Upper(ToStr(op.roll))

\* the texts of the marks field that stand for a number in [0, 100]
ValidMarkTexts == {<<"5","0">>, <<"1","0","0">>}

\* C9: an add/update request whose roll or name is empty after trimming, or
\* whose marks are no number in [0, 100], is rejected with a notification:
\* the store is not called, the roster and the document stay as they were.
C9_InvalidRequestRejected ==
    [][(/\ op'.name = "ui_add_update"
        /\ \/ Strip(op'.roll.s) = <<>>
           \/ Strip(op'.sname.s) = <<>>
           \/ Strip(op'.marks.s) \notin ValidMarkTexts)
        => /\ op'.notified # ""
           /\ op'.calls = <<>>
           /\ op'.writes = <<>>
           /\ op'.reload = <<>>
           /\ students' = students
           /\ file' = file]_vars

\* a request with marks above 100, refused while the roster holds a record
C9_Witness ==
    /\ op.name = "ui_add_update"
    /\ op.marks.s = <<"1","0","1">>
    /\ Strip(op.roll.s) # <<>>
    /\ Strip(op.sname.s) # <<>>
    /\ op.notified = "Enter marks between 0 and 100"
    /\ Len(students) = 1

\* view holds every record of d exactly once
SameRecords(view, d) ==
    /\ Len(view) = Len(d)
    /\ \A i \in 1..Len(d) : Cardinality({j \in 1..Len(view) : view[j] = d[i]}) = 1

\* C10: the sorted view in mode Roll returns every record exactly once, the
\* purely numeric rolls ascending by integer value and the other rolls
\* ascending as strings, also for a roster that mixes the two kinds.
C10_SortedByRoll ==
    (op.name = "sorted" /\ op.mode = "Roll")
        => /\ ~op.raised
           /\ SameRecords(op.view, students)
           /\ \A i, j \in 1..Len(op.view) :
                 i < j =>
                    /\ (IsDigits(op.view[i].roll) /\ IsDigits(op.view[j].roll))
                          => DigitsValue(op.view[i].roll) <= DigitsValue(op.view[j].roll)
                    /\ (~IsDigits(op.view[i].roll) /\ ~IsDigits(op.view[j].roll))
                          => ~StrLess(op.view[j].roll, op.view[i].roll)

\* rows are the records of d, each once, the larger marks first, the row at
\* position i carrying rank i and the record's roll, name and marks as text
RankedRows(rows, d) ==
    /\ Len(rows) = Len(d)
    /\ \A k \in 1..Len(d) :
          Cardinality({i \in 1..Len(rows) : rows[i].roll = d[k].roll}) = 1
    /\ \A i \in 1..Len(rows) :
          /\ rows[i].rank = NatText(i)
          /\ HasKey(d, rows[i].roll)
          /\ rows[i].name = Lookup(d, rows[i].roll).name
          /\ rows[i].marks = ToStr(Lookup(d, rows[i].roll).marks)
    /\ \A i, j \in 1..Len(rows) :
          i < j => Lookup(d, rows[i].roll).marks.n >= Lookup(d, rows[j].roll).marks.n

\* C11: the rows of the CSV export and of the PDF table are the same rows in
\* the same order; they list every record of the roster exactly once in
\* descending order of marks, and the row at position i has rank i, so that
\* the ranks are 1..n and records with equal marks get consecutive ranks.
C11_RankedExport ==
    /\ (op.name = "export_csv" /\ op.notified = "") => RankedRows(op.view, students)
    /\ (op.name = "generate_pdf" /\ op.notified = "Report")
          => /\ RankedRows(op.view, students)
             /\ op.view = ExportCsvOf(students, "ok").lines

\* a table of three rows whose second and third records have equal marks
C11_Witness ==
    /\ op.name = "generate_pdf"
    /\ op.notified = "Report"
    /\ Len(op.view) = 3
    /\ Lookup(students, op.view[1].roll).marks.n > Lookup(students, op.view[2].roll).marks.n
    /\ Lookup(students, op.view[2].roll).marks = Lookup(students, op.view[3].roll).marks
    /\ op.view[2].rank = <<"2">>
    /\ op.view[3].rank = <<"3">>

\* the number a mark stands for, as p / q: [ok, p, q], ok FALSE for what is
\* not a number
MarkNumber(v) ==
    CASE v.t \in {"int", "bool"}          -> [ok |-> TRUE, p |-> v.n, q |-> 1]
      [] v.t = "float" /\ v.s = <<>>      -> [ok |-> TRUE, p |-> v.n, q |-> 1]
      [] v.t = "float" /\ v # PyNaN       ->
            [ok |-> TRUE, p |-> DecimalRatio(v.s).p, q |-> DecimalRatio(v.s).q]
      [] v.t = "str" /\ IsDigits(v.s)     -> [ok |-> TRUE, p |-> DigitsValue(v.s), q |-> 1]
      [] OTHER                            -> [ok |-> FALSE, p |-> 0, q |-> 1]

\* lo <= p / q < hi
InBand(m, lo, hi) == lo * m.q <= m.p /\ m.p < hi * m.q

\* C12: calculate_grade never raises and returns a grade for every input:
\* for a number m, S if m >= 90, A if 80 <= m < 90, B if 70 <= m < 80,
\* C if 60 <= m < 70, D if 50 <= m < 60, E if 40 <= m < 50, N if m < 40;
\* for an input that is not a number, N.
C12_GradeBands ==
    op.name = "calculate_grade"
        => LET m == MarkNumber(op.marks)
               g == op.result
           IN  /\ ~op.raised
               /\ g \in Grades
               /\ m.ok => /\ g = "S" <=> m.p >= 90 * m.q
                          /\ g = "A" <=> InBand(m, 80, 90)
                          /\ g = "B" <=> InBand(m, 70, 80)
                          /\ g = "C" <=> InBand(m, 60, 70)
                          /\ g = "D" <=> InBand(m, 50, 60)
                          /\ g = "E" <=> InBand(m, 40, 50)
                          /\ g = "N" <=> m.p < 40 * m.q
               /\ ~m.ok => g = "N"

\* the lower bound of the highest band is classified into the band
C12_Witness ==
    /\ op.name = "calculate_grade"
    /\ op.marks = PyFloat(90)
    /\ op.result = "S"

\* the number of a mark that is not negative, as p / q
MarkRatio(v) == IF v.s = <<>> THEN [p |-> v.n, q |-> 1] ELSE DecimalRatio(v.s)

\* a <= b
RatioLeq(a, b) == a.p * b.q <= b.p * a.q

\* v is a mark of d and no mark of d is larger
IsLargest(v, d) ==
    /\ \E i \in 1..Len(d) : d[i].marks = v
    /\ \A i \in 1..Len(d) : RatioLeq(MarkRatio(d[i].marks), MarkRatio(v))

\* v is a mark of d and no mark of d is smaller
IsSmallest(v, d) ==
    /\ \E i \in 1..Len(d) : d[i].marks = v
    /\ \A i \in 1..Len(d) : RatioLeq(MarkRatio(v), MarkRatio(d[i].marks))

WholeMarks(d) == \A i \in 1..Len(d) : d[i].marks.s = <<>>

RECURSIVE WholeSum(_)
WholeSum(d) == IF d = <<>> THEN 0 ELSE d[1].marks.n + WholeSum(Tail(d))

\* min <= avg <= max in the dict st
Between(st) == ~DLess(st.avg, ToDouble(st.min)) /\ ~DLess(ToDouble(st.max), st.avg)

\* what stats() returns on d but for the place of the average
StatsBasics(st, d) ==
    IF d = <<>>
    THEN st.total = 0 /\ st.max = PyInt(0) /\ st.min = PyInt(0) /\ st.avg = PyInt(0)
    ELSE /\ st.total = Len(d)
         /\ IsLargest(st.max, d)
         /\ IsSmallest(st.min, d)
         /\ WholeMarks(d) => st.avg = DivRound(BitsOfNat(WholeSum(d)), 0, Len(d))

\* C13, as stated: stats returns the number of records, the largest and the
\* smallest marks and the average, the sum of the marks divided by their
\* number, which lies between the smallest and the largest marks; for an
\* empty roster the four are 0 and nothing raises; the roster is unchanged.
C13_StatsAverageBetween ==
    [][op'.name = "stats"
        => /\ ~op'.raised
           /\ students' = students
           /\ StatsBasics(op'.result, students)
           /\ students # <<>> => Between(op'.result)]_vars

\* C13, amended: stats returns the number of records, the largest and the
\* smallest marks and the average, the float sum of the marks divided by
\* their number; where the marks are whole numbers the average is the float
\* nearest to their exact mean and lies between the smallest and the largest
\* marks (with fractions the sum is rounded, and the average can leave that
\* range by a rounding error); for an empty roster the four are 0 and nothing
\* raises; the roster is unchanged.
C13_Stats ==
    [][op'.name = "stats"
        => /\ ~op'.raised
           /\ students' = students
           /\ StatsBasics(op'.result, students)
           /\ (students # <<>> /\ WholeMarks(students)) => Between(op'.result)]_vars

\* three whole marks whose mean, 100 / 3, is no whole number and lies
\* strictly between the smallest and the largest
C13_Witness ==
    /\ op.name = "stats"
    /\ op.result.total = 3
    /\ op.result.max = PyFloat(100)
    /\ op.result.min = PyFloat(0)
    /\ WholeSum(students) = 100
    /\ DLess(ToDouble(op.result.min), op.result.avg)
    /\ DLess(op.result.avg, ToDouble(op.result.max))

\* q occurs in s at some offset, letters compared without their case
Matches(q, s) ==
    \E k \in 0..Len(s) :
        /\ k + Len(q) <= Len(s)
        /\ \A i \in 1..Len(q) : UpperChar(s[k + i]) = UpperChar(q[i])

\* C14: filter_search(query) returns exactly the rolls of the records whose
\* roll or name contains the query, letters compared without their case; the
\* empty query returns every roll; the result is a subset of the roster's
\* keys and the call leaves the roster as it was.
C14_FilterSearch ==
    [][op'.name = "filter_search"
        => /\ op'.result = {k \in Keys(students) :
                                \/ Matches(op'.text, k)
                                \/ Matches(op'.text, Lookup(students, k).name)}
           /\ op'.text = <<>> => op'.result = Keys(students)
           /\ op'.result \subseteq Keys(students)
           /\ ~op'.raised
           /\ students' = students]_vars

\* a lower-case query that selects some records by their upper-case text and
\* leaves others out
C14_Witness ==
    /\ op.name = "filter_search"
    /\ op.text = <<"o","B">>
    /\ op.result # {}
    /\ op.result # Keys(students)

\* no lower-case letter in s
NoLowerCase(s) == \A i \in 1..Len(s) : ~InSeq(s[i], LowerCase)

\* C15: in a session that starts without a document and in which only the
\* application writes the document, after any sequence of add/update
\* requests (accepted or refused), deletes and refreshes, every record of
\* the roster has marks from 0 to 100, a roll key without lower-case letters
\* and a non-empty name without lower-case letters.
C15_RosterValid ==
    \A i \in 1..Len(students) :
        /\ MarksInRange(students[i].marks)
        /\ NoLowerCase(students[i].roll)
        /\ NoLowerCase(students[i].name)
        /\ students[i].name # <<>>

\* a request with marks out of range refused after two records were added,
\* one of them under a roll typed in lower case
C15_Witness ==
    /\ op.name = "ui_add_update"
    /\ op.notified = "Enter marks between 0 and 100"
    /\ op.marks = PyStr(<<"1","0","1">>)
    /\ Len(students) = 2
    /\ HasKey(students, <<"A">>)
    /\ file = Serialize(students)

====
